---- MODULE Spec2Model ----
(***************************************************************************)
(* Model of bot.py: a Telegram bot that keeps a two-player score as lines  *)
(* of scores.csv in a GitHub repository.                                   *)
(*                                                                         *)
(* Text is a sequence of tokens.  A token is one character ("5", ",",     *)
(* "\n", " ", "-", ...) or an opaque word that contains no separator      *)
(* ("date" and "time" stand for the strftime outputs).                    *)
(*                                                                         *)
(* Every command invocation is one coroutine.  Its steps are the pieces   *)
(* of the handler between two remote calls: the GitHub calls run in       *)
(* worker threads (asyncio.to_thread), so the calls of different          *)
(* invocations interleave freely.  The Telegram calls send, edit and pin  *)
(* are recorded in the invocation's trace; send and edit are taken to     *)
(* succeed, pin may fail (the code catches that).                          *)
(*                                                                         *)
(* Spec is the running bot with concurrent invocations, SpecAlone the      *)
(* running bot handling one command over a wide range of ledgers and       *)
(* arguments, SpecFair the running bot whose waiting handlers are resumed, *)
(* and SpecMain the process from its start in any environment.             *)
(***************************************************************************)
EXTENDS Integers, Sequences, FiniteSets, TLC

\* ------------------------------------------------------------------ bounds
\* Number of command invocations the bot handles in one run.
NumInvocations == 2

\* ----------------------------------------------------------- configuration
AUTHORIZED_CHAT_ID == "chat1"
PLAYER_A_ID == "userA"
PLAYER_I_ID == "userI"

Invocations == 1..NumInvocations

\* ------------------------------------------------------------ str helpers
Digits == <<"0", "1", "2", "3", "4", "5", "6", "7", "8", "9">>

IsDigit(c) == \E k \in 1..10 : Digits[k] = c

IsSpace(c) == c \in {" ", "\n"}

DigitVal(c) == (CHOOSE k \in 1..10 : Digits[k] = c) - 1

Front(s) == SubSeq(s, 1, Len(s) - 1)

Last(s) == s[Len(s)]

RECURSIVE LStrip(_)
LStrip(s) ==
    IF s = <<>> THEN s
    ELSE IF IsSpace(Head(s)) THEN LStrip(Tail(s)) ELSE s

RECURSIVE RStrip(_)
RStrip(s) ==
    IF s = <<>> THEN s
    ELSE IF IsSpace(Last(s)) THEN RStrip(Front(s)) ELSE s

\* str.strip()
Strip(s) == RStrip(LStrip(s))

\* str.split(sep): always at least one piece, empty pieces are kept.
RECURSIVE SplitFrom(_, _, _, _)
SplitFrom(s, sep, pieces, piece) ==
    IF s = <<>> THEN Append(pieces, piece)
    ELSE IF Head(s) = sep THEN SplitFrom(Tail(s), sep, Append(pieces, piece), <<>>)
    ELSE SplitFrom(Tail(s), sep, pieces, Append(piece, Head(s)))

Split(s, sep) == SplitFrom(s, sep, <<>>, <<>>)

\* str.replace(old, new) for a one-token old.
RECURSIVE Replace(_, _, _)
Replace(s, old, new) ==
    IF s = <<>> THEN <<>>
    ELSE (IF Head(s) = old THEN new ELSE <<Head(s)>>) \o Replace(Tail(s), old, new)

AllDigits(s) == s # <<>> /\ \A k \in 1..Len(s) : IsDigit(s[k])

RECURSIVE DigitsVal(_)
DigitsVal(s) ==
    IF s = <<>> THEN 0 ELSE DigitsVal(Front(s)) * 10 + DigitVal(Last(s))

\* int(text): surrounding whitespace and a leading minus are accepted.
IntOk(s) ==
    LET t == Strip(s)
    IN  IF t # <<>> /\ Head(t) = "-" THEN AllDigits(Tail(t)) ELSE AllDigits(t)

IntVal(s) ==
    LET t == Strip(s)
    IN  IF Head(t) = "-" THEN 0 - DigitsVal(Tail(t)) ELSE DigitsVal(t)

RECURSIVE NatToStr(_)
NatToStr(n) ==
    IF n < 10 THEN <<Digits[n + 1]>>
    ELSE NatToStr(n \div 10) \o <<Digits[(n % 10) + 1]>>

\* f"{n}" for an int
IntToStr(n) == IF n < 0 THEN <<"-">> \o NatToStr(0 - n) ELSE NatToStr(n)

\* re.match(r'^\d+-\d+$', text): $ also matches before one final newline.
ScoreTextMatches(text) ==
    LET t == IF text # <<>> /\ Last(text) = "\n" THEN Front(text) ELSE text
        parts == Split(t, "-")
    IN  Len(parts) = 2 /\ AllDigits(parts[1]) /\ AllDigits(parts[2])

\* ------------------------------------------------------------ score lines
\* f"{date_str},{time_str},{score_a},{score_i}" with the two scores as text.
CsvLine(score_a, score_i) ==
    <<"date", ",", "time", ",">> \o score_a \o <<",">> \o score_i

\* Result of get_latest_score: the pair, or the exception it raises.
Score(a, i) == [ok |-> TRUE, a |-> a, i |-> i, err |-> ""]

Raise(err) == [ok |-> FALSE, a |-> 0, i |-> 0, err |-> err]

\* get_latest_score without the strip() of line 39.
get_latest_score_unstripped(decoded_content) ==
    LET lines == Split(decoded_content, "\n")
        fields == Split(Last(lines), ",")
    IN  IF Len(lines) < 2 THEN Score(0, 0)
        ELSE IF Len(fields) < 4 THEN Raise("not enough values to unpack")
        ELSE IF Len(fields) > 4 THEN Raise("too many values to unpack")
        ELSE IF ~IntOk(fields[3]) \/ ~IntOk(fields[4])
             THEN Raise("invalid literal for int()")
        ELSE Score(IntVal(fields[3]), IntVal(fields[4]))

\* get_latest_score taking a last line it cannot read for no score.
get_latest_score_lenient(decoded_content) ==
    LET lines == Split(Strip(decoded_content), "\n")
        fields == Split(Last(lines), ",")
    IN  IF Len(lines) < 2 \/ Len(fields) # 4 THEN Score(0, 0)
        ELSE IF ~IntOk(fields[3]) \/ ~IntOk(fields[4]) THEN Score(0, 0)
        ELSE Score(IntVal(fields[3]), IntVal(fields[4]))

\* Lines 39-47 of get_latest_score, applied to the decoded blob.
get_latest_score(decoded_content) ==
    LET current_content == Strip(decoded_content)
        lines == Split(current_content, "\n")
        last_line == Last(lines)
        fields == Split(last_line, ",")
    IN  IF Len(lines) < 2 THEN Score(0, 0)
        ELSE IF Len(fields) < 4 THEN Raise("not enough values to unpack")
        ELSE IF Len(fields) > 4 THEN Raise("too many values to unpack")
        ELSE IF ~IntOk(fields[3]) \/ ~IntOk(fields[4])
             THEN Raise("invalid literal for int()")
        ELSE Score(IntVal(fields[3]), IntVal(fields[4]))

\* update_csv_file writing the new line alone, without the current content.
NewContentOverwrite(decoded_content, line) == line

\* Lines 55-56 of update_csv_file.
NewContent(decoded_content, line) == Strip(decoded_content) \o <<"\n">> \o line

\* Lines 122-123 of my_score_command.
Increment(s, player) ==
    <<s[1] + (IF player = "A" THEN 1 ELSE 0), s[2] + (IF player = "I" THEN 1 ELSE 0)>>

\* Line 113 without its last alternative: whoever is not PlayerA is PlayerI.
PlayerOfTwoWay(user_id) == IF user_id = PLAYER_A_ID THEN "A" ELSE "I"

\* Line 113 of my_score_command.
PlayerOf(user_id) ==
    IF user_id = PLAYER_A_ID THEN "A"
    ELSE IF user_id = PLAYER_I_ID THEN "I" ELSE "None"

\* The guard without the comparison of the chat id.
IgnoredWithoutMessage(chat) == chat = "no message"

\* Lines 75, 109, 146: the guard every handler starts with.
Ignored(chat) == chat = "no message" \/ chat # AUTHORIZED_CHAT_ID

\* ------------------------------------------------------------- statistics
\* The quotient cut off instead of rounded.
RoundDivDown(n, m) == n \div m

\* Nearest integer to n / m for n >= 0, m > 0, ties to even.
RoundDiv(n, m) ==
    LET q == n \div m
        r == n % m
    IN  IF 2 * r > m THEN q + 1
        ELSE IF 2 * r < m THEN q
        ELSE IF q % 2 = 0 THEN q ELSE q + 1

\* f"{num / den:.2f}" with the '.' escaped, for num >= 0, den > 0.
Fixed2(num, den) ==
    LET v == RoundDiv(num * 100, den)
    IN  NatToStr(v \div 100) \o <<"\\", ".">>
            \o <<Digits[((v \div 10) % 10) + 1], Digits[(v % 10) + 1]>>

\* f"{(num / den) * 100:.1f}" with the '.' escaped, for num >= 0, den > 0.
Percent1(num, den) ==
    LET v == RoundDiv(num * 1000, den)
    IN  NatToStr(v \div 10) \o <<"\\", ".">> \o <<Digits[(v % 10) + 1]>>

\* Lines 158-169 of score_stats_command: score, ratio and the two shares,
\* one per line of the message.
StatsText(a, i) ==
    LET ratio_str == IF i > 0 THEN Fixed2(a, i) \o <<":", "1">> ELSE <<"inf">>
        percent_a == Percent1(a, a + i) \o <<"%">>
        percent_i == Percent1(i, a + i) \o <<"%">>
    IN  IntToStr(a) \o <<" ", "\\", "-", " ">> \o IntToStr(i) \o <<"\n">>
            \o ratio_str \o <<"\n">> \o percent_a \o <<"\n">> \o percent_i

\* ----------------------------------------------------------------- state
VARIABLES
    ledger,        \* decoded content of scores.csv on the branch
    ledgerSha,     \* revision (blob sha) of that content
    pc,            \* pc[p]: where invocation p stands
    inv,           \* inv[p]: the update (command, chat, sender, args) it handles
    score,         \* score[p]: score_a, score_i of my_score_command and score_stats_command
    new_csv_line,  \* new_csv_line[p]
    contents,      \* contents[p]: what update_csv_file fetched (content, sha)
    trace,         \* trace[p]: the Telegram and GitHub calls p has made, in order
    env,           \* the environment variables read at lines 14-24
    app,           \* where main stands: "not started", "refused" or "polling"
    handlers       \* the commands main has registered a handler for

vars == <<ledger, ledgerSha, pc, inv, score, new_csv_line, contents, trace,
          env, app, handlers>>

\* One call in a trace.  ev names the call, fn the function that makes it,
\* kind the message kind (send, edit) or the call's result (the others).
Call(ev, fn, kind, txt, sha) ==
    [ev |-> ev, fn |-> fn, kind |-> kind, txt |-> txt, sha |-> sha]

\* What get_contents hands back: the content on the branch, when it succeeds.
Fetched(res) == IF res = "ok" THEN ledger ELSE <<>>

Send(fn, kind, txt) == Call("send", fn, kind, txt, 0)

Edit(fn, kind, txt) == Call("edit", fn, kind, txt, 0)

\* ---------------------------------------------------------------- inputs
\* update.message.chat_id, or no message at all (an edited message, say).
ChatIds == {AUTHORIZED_CHAT_ID, "chat2", "no message"}

UserIds == {PLAYER_A_ID, PLAYER_I_ID, "userX"}

\* context.args of /setscore
ArgLists ==
    { <<>>,
      << <<"1", "4", "2", "-", "9", "1">> >>,
      << <<"0", "7", "-", "3">>, <<"x">> >>,
      << <<"a", "b", "c", "-", "9", "1">> >>,
      << <<"1", "4", "2">> >>,
      << <<"1", "4", "2", "-">> >>,
      << <<"-", "9", "1">> >> }

\* The inputs of the runs with concurrent invocations.
FewChatIds == {AUTHORIZED_CHAT_ID, "chat2"}

FewArgLists == { <<>>, << <<"1", "4", "2", "-", "9", "1">> >> }

\* What a remote call can raise apart from a conflict: the API's refusal
\* (bad credentials, file or branch not found) or a transport error.  Each
\* call site draws one of them, so that both except clauses of
\* update_csv_file (lines 66-68, 69-71) are taken.
GetFailures == {"GithubException"}

PutFailures == {"Exception"}

\* str(e) of such a failure, and the message update_csv_file returns for it
\* (lines 66-71).
ErrorText(failure) ==
    CASE failure = "GithubException" -> <<"401 ", "Bad credentials">>
      [] failure = "Conflict" -> <<"409 ", "does not match">>
      [] OTHER -> <<"connection error">>

\* The message of a failure whose data carries none.
ErrorMessageUnknown(failure) == <<"GitHub API Error: ", "Unknown error">>

ErrorMessage(failure) ==
    CASE failure = "GithubException" -> <<"GitHub API Error: ", "Bad credentials">>
      [] failure = "Conflict" -> <<"GitHub API Error: ", "does not match">>
      [] OTHER -> <<"connection error">>

\* Ledgers the repository may hold when the bot starts: a body, with blank
\* lines before and after it or none.
Header == <<"date", ",", "time", ",", "score_a", ",", "score_i">>

Row(a, i) == CsvLine(IntToStr(a), IntToStr(i))

Bodies ==
    { <<>>,
      Header,
      Row(5, 3),
      Header \o <<"\n">> \o Row(5, 3),
      Row(5, 3) \o <<"\n">> \o Row(7, 3),
      Header \o <<"\n">> \o Row(0, 0),
      Header \o <<"\n", "\n">> \o Row(1, 0),
      Header \o <<"\n">> \o <<"date", ",", "time", ",", " ", "1", "0", ",", "9", " ">>,
      Header \o <<"\n">> \o <<"date", ",", "time", ",", "5">>,
      Header \o <<"\n">> \o Row(5, 3) \o <<",", "1">>,
      Header \o <<"\n">> \o <<"date", ",", "time", ",", "x", ",", "3">>,
      Header \o <<"\n">> \o <<"date", ",", "time", ",", "5", ",">> }

Blanks == { <<>>, <<"\n">>, <<" ", "\n">> }

AllLedgers == { lead \o body \o trail : lead \in Blanks, body \in Bodies, trail \in Blanks }

FewLedgers == { <<>>, Header, Header \o <<"\n">> \o Row(5, 3) \o <<"\n">> }

NoUpdate == [cmd |-> "none", chat |-> "", user |-> "", args |-> <<>>]

NoContents == [content |-> <<>>, sha |-> 0]

\* ------------------------------------------------------------ start-up
\* os.getenv of a variable that is not set.
Unset == "None"

\* Lines 17-20: INSTALLATION_ID, an int or None.
InstallationId(text) ==
    IF text = <<Unset>> \/ ~IntOk(text) THEN [none |-> TRUE, val |-> 0]
    ELSE [none |-> FALSE, val |-> IntVal(text)]

\* bool(value) of a string or None, and of INSTALLATION_ID.
Truthy(value) == value # Unset /\ value # ""

TruthyId(id) == ~id.none /\ id.val # 0

\* all([...]) without INSTALLATION_ID in the list.
ConfigCompleteWithoutId(e) ==
    /\ Truthy(e.TELEGRAM_TOKEN)
    /\ Truthy(e.GITHUB_REPO_NAME)
    /\ Truthy(e.GITHUB_APP_ID)
    /\ Truthy(e.RAW_PRIVATE_KEY)
    /\ Truthy(e.AUTHORIZED_CHAT_ID)
    /\ Truthy(e.PLAYER_A_ID)
    /\ Truthy(e.PLAYER_I_ID)

\* Line 178: all([...]) over the eight values.
ConfigComplete(e) ==
    /\ Truthy(e.TELEGRAM_TOKEN)
    /\ Truthy(e.GITHUB_REPO_NAME)
    /\ Truthy(e.GITHUB_APP_ID)
    /\ TruthyId(InstallationId(e.GITHUB_INSTALLATION_ID))
    /\ Truthy(e.RAW_PRIVATE_KEY)
    /\ Truthy(e.AUTHORIZED_CHAT_ID)
    /\ Truthy(e.PLAYER_A_ID)
    /\ Truthy(e.PLAYER_I_ID)

\* The environments the process may be started in.
Envs ==
    [ TELEGRAM_TOKEN : {Unset, "", "token"},
      GITHUB_REPO_NAME : {Unset, "", "owner/repo"},
      GITHUB_APP_ID : {Unset, "", "app"},
      GITHUB_INSTALLATION_ID :
          { <<Unset>>, <<>>, <<"a", "b", "c">>, <<"0">>, <<"4", "2">> },
      RAW_PRIVATE_KEY : {Unset, "", "key"},
      AUTHORIZED_CHAT_ID : {Unset, "", AUTHORIZED_CHAT_ID},
      PLAYER_A_ID : {Unset, "", PLAYER_A_ID},
      PLAYER_I_ID : {Unset, "", PLAYER_I_ID} ]

\* The environment of a bot that is running.
CompleteEnv ==
    [ TELEGRAM_TOKEN |-> "token",
      GITHUB_REPO_NAME |-> "owner/repo",
      GITHUB_APP_ID |-> "app",
      GITHUB_INSTALLATION_ID |-> <<"4", "2">>,
      RAW_PRIVATE_KEY |-> "key",
      AUTHORIZED_CHAT_ID |-> AUTHORIZED_CHAT_ID,
      PLAYER_A_ID |-> PLAYER_A_ID,
      PLAYER_I_ID |-> PLAYER_I_ID ]

\* Lines 183-185: the handlers main registers.
Commands == {"setscore", "myscore", "score"}

\* The handlers' own state before any update has come in.
InitWith(ledgers) ==
    /\ ledger \in ledgers
    /\ ledgerSha = 1
    /\ pc = [p \in Invocations |-> "idle"]
    /\ inv = [p \in Invocations |-> NoUpdate]
    /\ score = [p \in Invocations |-> <<0, 0>>]
    /\ new_csv_line = [p \in Invocations |-> <<>>]
    /\ contents = [p \in Invocations |-> NoContents]
    /\ trace = [p \in Invocations |-> <<>>]

\* --------------------------------------------------------------- actions
\* Handlers run once main has registered them and polls (lines 182-188);
\* they never touch the configuration.
Running(cmd) ==
    /\ app = "polling"
    /\ cmd \in handlers
    /\ UNCHANGED <<env, app, handlers>>

\* The handler going to the remote call without a word.
NoPlaceholder(fn, kind, txt) == <<>>

\* Lines 93 and 118: the placeholder, sent before the first remote call.
Placeholder(fn, kind, txt) == <<Send(fn, kind, txt)>>

Log(p, calls) == trace' = [trace EXCEPT ![p] = @ \o calls]

Goto(p, label) == pc' = [pc EXCEPT ![p] = label]

Handler(p) ==
    IF inv[p].cmd = "setscore" THEN "set_score_command" ELSE "my_score_command"

\* Lines 105 and 140: the failure text of the command.
FailKind(p) == IF inv[p].cmd = "setscore" THEN "failed to set" ELSE "failed to increment"

\* The confirmation sent as a reply of its own.
ConfirmationAsReply(p) ==
    IF inv[p].cmd = "setscore"
    THEN Send(Handler(p), "score set", Replace(inv[p].args[1], "-", <<"\\", "-">>))
    ELSE Send(Handler(p), "score is now",
              IntToStr(score[p][1]) \o <<"\\", "-">> \o IntToStr(score[p][2]))

\* Lines 97-98 and 132-133: the confirmation of the command.
Confirmation(p) ==
    IF inv[p].cmd = "setscore"
    THEN Edit(Handler(p), "score set", Replace(inv[p].args[1], "-", <<"\\", "-">>))
    ELSE Edit(Handler(p), "score is now",
              IntToStr(score[p][1]) \o <<"\\", "-">> \o IntToStr(score[p][2]))

\* set_score_command, lines 74-93: the gate, the validation of the argument,
\* the new line and the placeholder message.  An ignored update is drawn
\* with one fixed argument list, since the handler returns before reading it.
SetScoreCommand(p, chats, arglists) ==
    /\ Running("setscore")
    /\ pc[p] = "idle"
    /\ \E chat \in chats, args \in arglists :
         /\ IF Ignored(chat)
            THEN /\ args = <<>>
                 /\ Goto(p, "done")
                 /\ UNCHANGED <<trace, new_csv_line>>
            ELSE IF args = <<>>
            THEN /\ Log(p, <<Send("set_score_command", "usage", <<>>)>>)
                 /\ Goto(p, "done")
                 /\ UNCHANGED new_csv_line
            ELSE IF ~ScoreTextMatches(args[1])
            THEN /\ Log(p, <<Send("set_score_command", "invalid format", <<>>)>>)
                 /\ Goto(p, "done")
                 /\ UNCHANGED new_csv_line
            ELSE LET parts == Split(args[1], "-")
                 IN  /\ new_csv_line' =
                            [new_csv_line EXCEPT ![p] = CsvLine(parts[1], parts[2])]
                     /\ Log(p, Placeholder("set_score_command", "updating", <<>>))
                     /\ Goto(p, "update_get_contents")
         /\ inv' = [inv EXCEPT ![p] =
                      [cmd |-> "setscore", chat |-> chat, user |-> "", args |-> args]]
    /\ UNCHANGED <<ledger, ledgerSha, score, contents>>

\* my_score_command, lines 108-118: the gate, the sender's role and the
\* placeholder message.  An ignored update is drawn with one fixed sender,
\* since the handler returns before reading it.
MyScoreCommand(p, chats) ==
    /\ Running("myscore")
    /\ pc[p] = "idle"
    /\ \E chat \in chats, user \in UserIds :
         /\ IF Ignored(chat)
            THEN /\ user = PLAYER_A_ID
                 /\ Goto(p, "done")
                 /\ UNCHANGED trace
            ELSE IF PlayerOf(user) = "None"
            THEN /\ Log(p, <<Send("my_score_command", "not registered", <<>>)>>)
                 /\ Goto(p, "done")
            ELSE /\ Log(p, Placeholder("my_score_command", "fetching", <<PlayerOf(user)>>))
                 /\ Goto(p, "get_latest_score")
         /\ inv' = [inv EXCEPT ![p] =
                      [cmd |-> "myscore", chat |-> chat, user |-> user, args |-> <<>>]]
    /\ UNCHANGED <<ledger, ledgerSha, score, new_csv_line, contents>>

\* score_stats_command, lines 145-147: the gate.
ScoreStatsCommand(p, chats) ==
    /\ Running("score")
    /\ pc[p] = "idle"
    /\ \E chat \in chats :
         /\ inv' = [inv EXCEPT ![p] =
                      [cmd |-> "score", chat |-> chat, user |-> "", args |-> <<>>]]
         /\ Goto(p, IF Ignored(chat) THEN "done" ELSE "stats_get_latest_score")
    /\ UNCHANGED <<ledger, ledgerSha, score, new_csv_line, contents, trace>>

\* my_score_command, lines 120-128 and 142-143: get_latest_score in a worker
\* thread (lines 34-47), the increment, the new line and the second
\* placeholder; any exception ends in the error text.
MyScoreGetLatest(p) ==
    /\ Running(inv[p].cmd)
    /\ pc[p] = "get_latest_score"
    /\ \E res \in {"ok"} \cup GetFailures :
         LET got == Call("get_contents", "get_latest_score", res, Fetched(res), ledgerSha)
             latest == get_latest_score(ledger)
             next == Increment(<<latest.a, latest.i>>, PlayerOf(inv[p].user))
         IN  IF res # "ok"
             THEN /\ Log(p, <<got, Edit("my_score_command", "error", ErrorText(res))>>)
                  /\ Goto(p, "done")
                  /\ UNCHANGED <<score, new_csv_line>>
             ELSE IF ~latest.ok
             THEN /\ Log(p, <<got, Edit("my_score_command", "error", <<latest.err>>)>>)
                  /\ Goto(p, "done")
                  /\ UNCHANGED <<score, new_csv_line>>
             ELSE /\ score' = [score EXCEPT ![p] = next]
                  /\ new_csv_line' = [new_csv_line EXCEPT ![p] =
                                        CsvLine(IntToStr(next[1]), IntToStr(next[2]))]
                  /\ Log(p, <<got, Edit("my_score_command", "incrementing", <<>>)>>)
                  /\ Goto(p, "update_get_contents")
    /\ UNCHANGED <<ledger, ledgerSha, inv, contents>>

\* score_stats_command answering by an edit, as the other two handlers do.
StatsGetLatestEditing(p) ==
    /\ Running(inv[p].cmd)
    /\ pc[p] = "stats_get_latest_score"
    /\ \E res \in {"ok"} \cup GetFailures :
         LET got == Call("get_contents", "get_latest_score", res, Fetched(res), ledgerSha)
             latest == get_latest_score(ledger)
         IN  IF res # "ok"
             THEN /\ Log(p, <<got, Edit("score_stats_command", "error", ErrorText(res))>>)
                  /\ UNCHANGED score
             ELSE IF ~latest.ok
             THEN /\ Log(p, <<got, Edit("score_stats_command", "error", <<latest.err>>)>>)
                  /\ UNCHANGED score
             ELSE /\ score' = [score EXCEPT ![p] = <<latest.a, latest.i>>]
                  /\ IF latest.a + latest.i = 0
                     THEN Log(p, <<got, Edit("score_stats_command", "no scores", <<>>)>>)
                     ELSE Log(p, <<got, Edit("score_stats_command", "statistics",
                                             StatsText(latest.a, latest.i))>>)
    /\ Goto(p, "done")
    /\ UNCHANGED <<ledger, ledgerSha, inv, new_csv_line, contents>>

\* score_stats_command, lines 149-173: get_latest_score in a worker thread
\* and the one reply.
StatsGetLatest(p) ==
    /\ Running(inv[p].cmd)
    /\ pc[p] = "stats_get_latest_score"
    /\ \E res \in {"ok"} \cup GetFailures :
         LET got == Call("get_contents", "get_latest_score", res, Fetched(res), ledgerSha)
             latest == get_latest_score(ledger)
         IN  IF res # "ok"
             THEN /\ Log(p, <<got, Send("score_stats_command", "error", ErrorText(res))>>)
                  /\ UNCHANGED score
             ELSE IF ~latest.ok
             THEN /\ Log(p, <<got, Send("score_stats_command", "error", <<latest.err>>)>>)
                  /\ UNCHANGED score
             ELSE /\ score' = [score EXCEPT ![p] = <<latest.a, latest.i>>]
                  /\ IF latest.a + latest.i = 0
                     THEN Log(p, <<got, Send("score_stats_command", "no scores", <<>>)>>)
                     ELSE Log(p, <<got, Send("score_stats_command", "statistics",
                                             StatsText(latest.a, latest.i))>>)
    /\ Goto(p, "done")
    /\ UNCHANGED <<ledger, ledgerSha, inv, new_csv_line, contents>>

\* update_csv_file, lines 51-56: the file and its sha as they are now.  A
\* failure is caught (lines 66-71) and the handler edits the failure text in
\* (lines 104-106, 139-141).
UpdateGetContents(p) ==
    /\ Running(inv[p].cmd)
    /\ pc[p] = "update_get_contents"
    /\ \E res \in {"ok"} \cup GetFailures :
         LET got == Call("get_contents", "update_csv_file", res, Fetched(res), ledgerSha)
         IN  IF res = "ok"
             THEN /\ contents' = [contents EXCEPT ![p] =
                                    [content |-> ledger, sha |-> ledgerSha]]
                  /\ Log(p, <<got>>)
                  /\ Goto(p, "update_file")
             ELSE /\ Log(p, <<got, Edit(Handler(p), FailKind(p), ErrorMessage(res))>>)
                  /\ Goto(p, "done")
                  /\ UNCHANGED contents
    /\ UNCHANGED <<ledger, ledgerSha, inv, score, new_csv_line>>

\* update_file sent with whatever sha is current, not the one fetched.
UpdateShaCurrent(fetched) == ledgerSha

\* Line 62 of update_csv_file: the revision the update is conditioned on.
UpdateSha(fetched) == fetched.sha

\* The repository's answer to update_file: the commit is made iff the sha
\* sent is the sha of the file on the branch, else 409.
Accepts(sha) == sha = ledgerSha

\* The handler confirming without the test of success (lines 96, 131).
UpdateFileUnchecked(p) ==
    /\ Running(inv[p].cmd)
    /\ pc[p] = "update_file"
    /\ \E res \in {"answered"} \cup PutFailures :
         LET sha == UpdateSha(contents[p])
             new_content == NewContent(contents[p].content, new_csv_line[p])
             put(r) == Call("update_file", "update_csv_file", r, new_content, sha)
         IN  /\ IF res = "answered" /\ Accepts(sha)
                THEN /\ ledger' = new_content
                     /\ ledgerSha' = ledgerSha + 1
                     /\ Log(p, <<put("ok"), Confirmation(p)>>)
                ELSE /\ Log(p, <<put(IF res = "answered" THEN "Conflict" ELSE res),
                                 Confirmation(p)>>)
                     /\ UNCHANGED <<ledger, ledgerSha>>
             /\ Goto(p, "pin_chat_message")
    /\ UNCHANGED <<inv, score, new_csv_line, contents>>

\* update_csv_file, lines 58-71, and the handler's report (lines 96-99,
\* 104-106, 131-134, 139-141).
UpdateFile(p) ==
    /\ Running(inv[p].cmd)
    /\ pc[p] = "update_file"
    /\ \E res \in {"answered"} \cup PutFailures :
         LET sha == UpdateSha(contents[p])
             new_content == NewContent(contents[p].content, new_csv_line[p])
             put(r) == Call("update_file", "update_csv_file", r, new_content, sha)
             failed(r) == /\ Log(p, <<put(r), Edit(Handler(p), FailKind(p), ErrorMessage(r))>>)
                          /\ Goto(p, "done")
                          /\ UNCHANGED <<ledger, ledgerSha>>
         IN  IF res # "answered" THEN failed(res)
             ELSE IF ~Accepts(sha) THEN failed("Conflict")
             ELSE /\ ledger' = new_content
                  /\ ledgerSha' = ledgerSha + 1
                  /\ Log(p, <<put("ok"), Confirmation(p)>>)
                  /\ Goto(p, "pin_chat_message")
    /\ UNCHANGED <<inv, score, new_csv_line, contents>>

\* The pin without the try of lines 100 and 135: its failure reaches the
\* handler, which reports it.
PinChatMessageUncaught(p) ==
    /\ Running(inv[p].cmd)
    /\ pc[p] = "pin_chat_message"
    /\ \E res \in {"ok", "Exception"} :
         LET pin == Call("pin", Handler(p), res, <<>>, 0)
         IN  IF res = "ok" THEN Log(p, <<pin>>)
             ELSE Log(p, <<pin, Edit(Handler(p), "error", <<"pin failed">>)>>)
    /\ Goto(p, "done")
    /\ UNCHANGED <<ledger, ledgerSha, inv, score, new_csv_line, contents>>

\* Lines 100-103 and 135-138: the pin, whose failure is only printed.
PinChatMessage(p) ==
    /\ Running(inv[p].cmd)
    /\ pc[p] = "pin_chat_message"
    /\ \E res \in {"ok", "Exception"} :
         Log(p, <<Call("pin", Handler(p), res, <<>>, 0)>>)
    /\ Goto(p, "done")
    /\ UNCHANGED <<ledger, ledgerSha, inv, score, new_csv_line, contents>>

\* main, lines 176-188: with an incomplete configuration it returns, else it
\* registers the three handlers and polls.
Main ==
    /\ app = "not started"
    /\ IF ConfigComplete(env)
       THEN /\ handlers' = Commands
            /\ app' = "polling"
       ELSE /\ app' = "refused"
            /\ UNCHANGED handlers
    /\ UNCHANGED <<ledger, ledgerSha, pc, inv, score, new_csv_line, contents, trace, env>>

\* The bot as main has started it.
Started ==
    /\ env = CompleteEnv
    /\ app = "polling"
    /\ handlers = Commands

\* Concurrent invocations: polling hands every update to its handler as a
\* task of its own, and the tasks interleave at every remote call.
Init == InitWith(FewLedgers) /\ Started

Next ==
    \E p \in Invocations :
        \/ SetScoreCommand(p, FewChatIds, FewArgLists)
        \/ MyScoreCommand(p, FewChatIds)
        \/ ScoreStatsCommand(p, FewChatIds)
        \/ MyScoreGetLatest(p)
        \/ StatsGetLatest(p)
        \/ UpdateGetContents(p)
        \/ UpdateFile(p)
        \/ PinChatMessage(p)

Spec == Init /\ [][Next]_vars

\* The positions of a handler between its remote calls.
Waiting == {"get_latest_score", "stats_get_latest_score", "update_get_contents",
            "update_file", "pin_chat_message"}

\* A handler that waits for a remote call goes on: the worker thread returns
\* or raises, or the awaited call does, and the event loop resumes the
\* coroutine (lines 94, 100, 121, 129, 135, 150).  Each of these positions
\* has a step of Next whatever the other variables hold, so the step is
\* described by the position alone.  Nothing obliges a user to send a
\* command.
Resumes(p) ==
    /\ pc[p] \in Waiting
    /\ \E label \in Waiting \cup {"done"} : pc' = [pc EXCEPT ![p] = label]

\* The ledger of the runs under fairness: its last line does not parse until
\* a set-score has appended one that does.
FairLedgers ==
    { Header \o <<"\n">> \o <<"date", ",", "time", ",", "x", ",", "3">> }

InitFair == InitWith(FairLedgers) /\ Started

\* The same steps, the commands coming from the authorized chat.
NextFair ==
    \E p \in Invocations :
        \/ SetScoreCommand(p, {AUTHORIZED_CHAT_ID}, FewArgLists)
        \/ MyScoreCommand(p, {AUTHORIZED_CHAT_ID})
        \/ ScoreStatsCommand(p, {AUTHORIZED_CHAT_ID})
        \/ MyScoreGetLatest(p)
        \/ StatsGetLatest(p)
        \/ UpdateGetContents(p)
        \/ UpdateFile(p)
        \/ PinChatMessage(p)

SpecFair == InitFair /\ [][NextFair]_vars /\ \A p \in Invocations : WF_pc(Resumes(p))

\* One invocation running alone, over every ledger and every input.
Alone(p) == \A q \in Invocations \ {p} : pc[q] = "idle"

InitAlone == InitWith(AllLedgers) /\ Started

NextAlone ==
    \E p \in Invocations :
        \/ Alone(p) /\ SetScoreCommand(p, ChatIds, ArgLists)
        \/ Alone(p) /\ MyScoreCommand(p, ChatIds)
        \/ Alone(p) /\ ScoreStatsCommand(p, ChatIds)
        \/ Alone(p) /\ MyScoreGetLatest(p)
        \/ Alone(p) /\ StatsGetLatest(p)
        \/ Alone(p) /\ UpdateGetContents(p)
        \/ Alone(p) /\ UpdateFile(p)
        \/ Alone(p) /\ PinChatMessage(p)

SpecAlone == InitAlone /\ [][NextAlone]_vars

\* The process from its start, in any environment: main, and then the
\* handlers one command at a time.
InitMain ==
    /\ InitWith(FewLedgers)
    /\ env \in Envs
    /\ app = "not started"
    /\ handlers = {}

NextMain == Main \/ NextAlone

SpecMain == InitMain /\ [][NextMain]_vars

\* ------------------------------------------------------------ properties
\* The calls of invocation p that match.
Has(p, ev, kind) ==
    \E k \in 1..Len(trace[p]) : trace[p][k].ev = ev /\ trace[p][k].kind = kind

\* p's update was accepted by the repository.
Accepted(p) == Has(p, "update_file", "ok")

\* The first call ev that function fn of invocation p made.
CallOf(p, ev, fn) ==
    trace[p][CHOOSE k \in 1..Len(trace[p]) :
                /\ trace[p][k].ev = ev /\ trace[p][k].fn = fn
                /\ \A j \in 1..(k - 1) : ~(trace[p][j].ev = ev /\ trace[p][j].fn = fn)]

Made(p, ev, fn) ==
    \E k \in 1..Len(trace[p]) : trace[p][k].ev = ev /\ trace[p][k].fn = fn

NonBlank(line) == line # <<>>

RECURSIVE StripEach(_)
StripEach(ls) == IF ls = <<>> THEN <<>> ELSE <<Strip(Head(ls))>> \o StripEach(Tail(ls))

\* The score lines of a blob: its lines without the whitespace around them,
\* blank lines left out.
ScoreLines(content) == SelectSeq(StripEach(Split(content, "\n")), NonBlank)

\* A line that carries a score: four fields, the last two integers.
ValidLine(line) ==
    LET f == Split(line, ",")
    IN  Len(f) = 4 /\ IntOk(f[3]) /\ IntOk(f[4])

LineScore(line) ==
    LET f == Split(line, ",")
    IN  <<IntVal(f[3]), IntVal(f[4])>>

IsPrefix(s, t) == Len(s) <= Len(t) /\ SubSeq(t, 1, Len(s)) = s

\* Invocation p sends its update_file with a sha that is no longer the
\* ledger's revision.
C1_StaleStep(p) ==
    /\ pc[p] = "update_file"
    /\ pc'[p] # "update_file"
    /\ contents[p].sha # ledgerSha

\* That step changes nothing and ends the command with the failure text, the
\* repository's conflict message whenever the repository answered.
C1_Rejected(p) ==
    LET put == trace'[p][Len(trace[p]) + 1]
        edit == trace'[p][Len(trace[p]) + 2]
    IN  /\ ledger' = ledger
        /\ ledgerSha' = ledgerSha
        /\ pc'[p] = "done"
        /\ Len(trace'[p]) = Len(trace[p]) + 2
        /\ put.ev = "update_file" /\ put.kind # "ok"
        /\ edit.ev = "edit" /\ edit.kind = FailKind(p)
        /\ put.kind \notin PutFailures =>
              /\ put.kind = "Conflict"
              /\ edit.txt = <<"GitHub API Error: ", "does not match">>

\* No two invocations whose update_csv_file fetched the same revision both
\* have their update accepted.
C1_OnePerRevision ==
    \A p, q \in Invocations :
        (p # q /\ Accepted(p) /\ Accepted(q)) => contents[p].sha # contents[q].sha

\* C1: an update_file whose sha is no longer the ledger's revision is
\* rejected: update_csv_file returns failure with the conflict message and the
\* ledger is left as it was; so of the invocations that fetched one revision
\* at most one has its update accepted.
C1_StaleUpdateRejected ==
    /\ [][\A p \in Invocations : C1_StaleStep(p) => C1_Rejected(p)]_vars
    /\ []C1_OnePerRevision

\* C1's case: an update met a conflict while another invocation's update,
\* from the same fetched revision, was accepted.
C1_Witness ==
    \E p, q \in Invocations :
        /\ Has(p, "update_file", "Conflict")
        /\ Accepted(q)
        /\ contents[p].sha = contents[q].sha

\* C2: an increment whose update is accepted read its score from the
\* revision that was current when the update was accepted, that is, the
\* ledger did not change between its get_latest_score and its update_file.
C2_AcceptedFromCurrentScore ==
    \A p \in Invocations :
        (inv[p].cmd = "myscore" /\ Accepted(p)) =>
            CallOf(p, "get_contents", "get_latest_score").sha
                = CallOf(p, "update_file", "update_csv_file").sha

\* A step keeps the score lines of the ledger as a prefix, and when it changes
\* the ledger it adds exactly one line at the end, the new line of an update.
C3_StepAppends ==
    IF ledger' = ledger THEN ledgerSha' = ledgerSha
    ELSE LET before == ScoreLines(ledger)
             after == ScoreLines(ledger')
         IN  /\ IsPrefix(before, after)
             /\ Len(after) = Len(before) + 1
             /\ \E p \in Invocations :
                   /\ pc[p] = "update_file"
                   /\ pc'[p] = "pin_chat_message"
                   /\ Last(after) = new_csv_line[p]

\* C3: the ledger is append-only: over every step of every interleaving of the
\* commands the score lines before are a prefix of the score lines after, and
\* an accepted update adds exactly one line at the end.
C3_AppendOnly == [][C3_StepAppends]_vars

\* C3's case: two updates were accepted, one after the other.
C3_Witness ==
    /\ \A p \in Invocations : Accepted(p)
    /\ Len(ScoreLines(ledger)) >= NumInvocations

\* While no set-score command has run, a line appended to a ledger of two
\* lines or more is the last line with one of the two scores increased by 1.
C4_StepIncrements ==
    LET before == ScoreLines(ledger)
        after == ScoreLines(ledger')
    IN  ( /\ ledger' # ledger
          /\ \A p \in Invocations : inv[p].cmd # "setscore"
          /\ Len(before) >= 2
          /\ ValidLine(Last(before)) )
        => LET b == LineScore(Last(before))
               a == LineScore(Last(after))
           IN  a = <<b[1] + 1, b[2]>> \/ a = <<b[1], b[2] + 1>>

\* C4: when increments are the only mutating commands, every appended line is
\* the line before it with exactly one of the two scores increased by 1 (stated
\* for ledgers of two lines or more, where get_latest_score reads the last
\* line).
C4_IncrementsOnly == [][C4_StepIncrements]_vars

\* C5: an increment running alone on a ledger whose last line carries (a, i)
\* appends (a + 1, i) for PlayerA and (a, i + 1) for PlayerI, and confirms
\* with that pair.
C5_IncrementOfLastLine ==
    \A p \in Invocations :
        ( /\ inv[p].cmd = "myscore"
          /\ Accepted(p)
          /\ ScoreLines(contents[p].content) # <<>>
          /\ ValidLine(Last(ScoreLines(contents[p].content))) )
        => LET b == LineScore(Last(ScoreLines(contents[p].content)))
               e == IF inv[p].user = PLAYER_A_ID
                    THEN <<b[1] + 1, b[2]>> ELSE <<b[1], b[2] + 1>>
           IN  /\ Last(ScoreLines(ledger)) = CsvLine(IntToStr(e[1]), IntToStr(e[2]))
               /\ \A k \in 1..Len(trace[p]) :
                     trace[p][k].kind = "score is now" =>
                        trace[p][k].txt = IntToStr(e[1]) \o <<"\\", "-">> \o IntToStr(e[2])

\* The pair get_latest_score returned to invocation p: score_a, score_i as
\* the statistics command holds them, and as the increment command held
\* them before lines 122-123.
Returned(p) ==
    IF inv[p].cmd = "score" THEN score[p]
    ELSE <<score[p][1] - (IF inv[p].user = PLAYER_A_ID THEN 1 ELSE 0),
           score[p][2] - (IF inv[p].user = PLAYER_A_ID THEN 0 ELSE 1)>>

\* get_latest_score of invocation p fetched the file and raised nothing.
GotScore(p) ==
    /\ Made(p, "get_contents", "get_latest_score")
    /\ CallOf(p, "get_contents", "get_latest_score").kind = "ok"
    /\ ~Has(p, "edit", "error")
    /\ ~Has(p, "send", "error")

\* C6: get_latest_score returns the integers of the 3rd and 4th field of the
\* last score line when the ledger has two score lines or more and that line
\* is valid, and (0, 0) when it has one or none; blank lines around the
\* content are not lines.
C6_LatestScore ==
    \A p \in Invocations :
        ( /\ Made(p, "get_contents", "get_latest_score")
          /\ CallOf(p, "get_contents", "get_latest_score").kind = "ok" )
        => LET lines == ScoreLines(CallOf(p, "get_contents", "get_latest_score").txt)
           IN  /\ Len(lines) < 2 => GotScore(p) /\ Returned(p) = <<0, 0>>
               /\ (Len(lines) >= 2 /\ ValidLine(Last(lines))) =>
                     GotScore(p) /\ Returned(p) = LineScore(Last(lines))

\* C6's case: the statistics command read (7, 3) off the last of two lines
\* of a blob that starts and ends with blank lines.
C6_Witness ==
    \E p \in Invocations :
        /\ inv[p].cmd = "score"
        /\ GotScore(p)
        /\ ledger # <<>>
        /\ Head(ledger) = "\n"
        /\ Last(ledger) = "\n"
        /\ Len(ScoreLines(ledger)) = 2
        /\ score[p] = <<7, 3>>

\* C7: once a set-score command has shown its confirmation, the last line of
\* the ledger carries its pair and get_latest_score returns that pair, as long
\* as no other line has been appended.
C7_SetScoreIsCurrent ==
    \A p \in Invocations :
        ( /\ inv[p].cmd = "setscore"
          /\ Has(p, "edit", "score set")
          /\ ledger = CallOf(p, "update_file", "update_csv_file").txt )
        => LET parts == Split(inv[p].args[1], "-")
               want == <<IntVal(parts[1]), IntVal(parts[2])>>
           IN  /\ LineScore(Last(ScoreLines(ledger))) = want
               /\ get_latest_score(ledger) = Score(want[1], want[2])

\* C8: a command from another chat, or an update without a message, ends at
\* once: no message is sent, edited or pinned, no remote call is made and the
\* ledger is the one the run started with.
C8_OtherChatIgnored ==
    \A p \in Invocations :
        (pc[p] # "idle" /\ inv[p].chat # AUTHORIZED_CHAT_ID) =>
            /\ pc[p] = "done"
            /\ trace[p] = <<>>
            /\ ledgerSha = 1
            /\ ledger \in AllLedgers

\* C8's case: an increment command came from another chat and has ended.
C8_Witness ==
    \E p \in Invocations :
        /\ pc[p] = "done"
        /\ inv[p].cmd = "myscore"
        /\ inv[p].chat = "chat2"

\* C9: an increment from the authorized chat by a sender who is neither
\* player gets the one message "not a registered player", makes no remote call
\* and leaves the ledger as it was; a registered sender is told the one role
\* the identity stands for.
C9_UnregisteredSender ==
    \A p \in Invocations :
        (inv[p].cmd = "myscore" /\ inv[p].chat = AUTHORIZED_CHAT_ID) =>
            /\ inv[p].user \notin {PLAYER_A_ID, PLAYER_I_ID} =>
                  /\ pc[p] = "done"
                  /\ trace[p] = <<Send("my_score_command", "not registered", <<>>)>>
                  /\ ledgerSha = 1
                  /\ ledger \in AllLedgers
            /\ inv[p].user = PLAYER_A_ID =>
                  trace[p][1] = Send("my_score_command", "fetching", <<"A">>)
            /\ inv[p].user = PLAYER_I_ID =>
                  trace[p][1] = Send("my_score_command", "fetching", <<"I">>)

\* C9's case: a sender who is no player asked for an increment.
C9_Witness ==
    \E p \in Invocations :
        /\ inv[p].cmd = "myscore"
        /\ inv[p].chat = AUTHORIZED_CHAT_ID
        /\ inv[p].user = "userX"
        /\ pc[p] = "done"

\* <digits>-<digits> in full.
DigitsDashDigits(text) ==
    \E k \in 2..(Len(text) - 1) :
        /\ text[k] = "-"
        /\ \A j \in 1..Len(text) : j # k => IsDigit(text[j])

\* C10: a set-score command from the authorized chat goes on to the remote
\* call only with exactly one argument that is <digits>-<digits>; with any
\* other argument list it sends the one usage or format message, makes no
\* remote call and leaves the ledger as it was.
C10_SetScoreValidation ==
    \A p \in Invocations :
        (inv[p].cmd = "setscore" /\ inv[p].chat = AUTHORIZED_CHAT_ID) =>
            IF Len(inv[p].args) = 1 /\ DigitsDashDigits(inv[p].args[1])
            THEN trace[p][1] = Send("set_score_command", "updating", <<>>)
            ELSE /\ pc[p] = "done"
                 /\ Len(trace[p]) = 1
                 /\ trace[p][1].ev = "send"
                 /\ trace[p][1].kind \in {"usage", "invalid format"}
                 /\ ledgerSha = 1

\* ------------------------------------------------- reporting and the pin
Contains(txt, token) == \E j \in 1..Len(txt) : txt[j] = token

\* What the repository or the transport said when a remote call failed.
UnderlyingError(kind) ==
    CASE kind = "GithubException" -> "Bad credentials"
      [] kind = "Conflict" -> "does not match"
      [] kind = "Exception" -> "connection error"

IsRemote(call) == call.ev \in {"get_contents", "update_file"}

FailureKinds == {"error", "failed to set", "failed to increment"}

Commits == {"setscore", "myscore"}

processing_message == 1

\* What the chat shows of an invocation's messages after its calls t: a send
\* adds a message, an edit replaces the text of processing_message.
RECURSIVE Shown(_)
Shown(t) ==
    IF t = <<>> THEN <<>>
    ELSE LET before == Shown(Front(t))
             call == Last(t)
         IN  IF call.ev = "send" THEN Append(before, call.kind)
             ELSE IF call.ev = "edit"
             THEN [before EXCEPT ![processing_message] = call.kind]
             ELSE before

PendingKinds == {"updating", "fetching", "incrementing"}

SuccessKinds == {"score set", "score is now"}

\* The invocation has sent its placeholder.
SentPlaceholder(p) ==
    /\ inv[p].cmd \in Commits
    /\ trace[p] # <<>>
    /\ trace[p][1].ev = "send"
    /\ trace[p][1].kind \in PendingKinds

\* The one message of the invocation shows a final text.
ShowsFinal(p) ==
    \E kind \in SuccessKinds \cup FailureKinds : Shown(trace[p]) = <<kind>>

\* An invocation that has sent its placeholder sends no second message, and
\* when it has ended the placeholder has become a final text.
C12_EndsFinal ==
    \A p \in Invocations :
        SentPlaceholder(p) =>
            /\ Len(Shown(trace[p])) = 1
            /\ pc[p] = "done" => ShowsFinal(p)

\* C12: every set-score or increment invocation that has sent its
\* placeholder eventually shows a final success or failure text in that same
\* message, whatever the remote calls answer; it never sends the result as
\* a second message and never ends with the pending text showing.
C12_FinalEdit ==
    /\ []C12_EndsFinal
    /\ \A p \in Invocations : SentPlaceholder(p) ~> (pc[p] = "done" /\ ShowsFinal(p))

\* C12's case: an invocation whose update met a conflict has ended with the
\* failure text in its one message.
C12_Witness ==
    \E p \in Invocations :
        /\ SentPlaceholder(p)
        /\ pc[p] = "done"
        /\ Has(p, "update_file", "Conflict")
        /\ Shown(trace[p]) = <<"failed to set">>

\* The invocation has made a remote call, and before the first of them it
\* had sent a placeholder.
PlaceholderFirst(p) ==
    LET t == trace[p]
    IN  (\E k \in 1..Len(t) : IsRemote(t[k])) =>
            /\ t[1].ev = "send"
            /\ t[1].kind \in PendingKinds

C14_PinBestEffort ==
    \A p \in Invocations :
        LET t == trace[p]
        IN  \A k \in 1..Len(t) :
                t[k].ev = "pin" =>
                    /\ k >= 3
                    /\ t[k - 2].ev = "update_file" /\ t[k - 2].kind = "ok"
                    /\ t[k - 1].ev = "edit" /\ t[k - 1].kind \in SuccessKinds
                    /\ \A j \in 1..Len(t) : t[j].kind \notin FailureKinds
                    /\ k = Len(t)
                    /\ pc[p] = "done"
                    /\ t[k].kind = "Exception" =>
                          /\ Shown(t) = <<t[k - 1].kind>>
                          /\ \E j \in 1..Len(ScoreLines(ledger)) :
                                ScoreLines(ledger)[j] = new_csv_line[p]

\* C14's case: the pin of a confirmed update failed.
C14_Witness ==
    \E p \in Invocations :
        /\ Has(p, "pin", "Exception")
        /\ Accepted(p)
        /\ pc[p] = "done"

\* C15: in a set-score or increment invocation the remote call that follows
\* a successful fetch is the update carrying that fetch's revision token,
\* every update carries the token of the fetch just before it, and once
\* the invocation has ended each token it fetched has been sent by exactly
\* one of its updates.
C15_TokenConsumedOnce ==
    \A p \in Invocations :
        inv[p].cmd \in Commits =>
            LET t == trace[p]
                fetched(k) == t[k].ev = "get_contents" /\ t[k].kind = "ok"
                consumes(m, k) ==
                    /\ t[m].ev = "update_file"
                    /\ t[m].sha = t[k].sha
                    /\ \A j \in (k + 1)..(m - 1) : ~IsRemote(t[j])
            IN  /\ \A k \in 1..Len(t) :
                      fetched(k) =>
                          /\ \A m \in (k + 1)..Len(t) :
                                (IsRemote(t[m]) /\ \A j \in (k + 1)..(m - 1) : ~IsRemote(t[j]))
                                    => consumes(m, k)
                          /\ pc[p] = "done" =>
                                Cardinality({m \in (k + 1)..Len(t) : consumes(m, k)}) = 1
                /\ \A m \in 1..Len(t) :
                      t[m].ev = "update_file" =>
                          \E k \in 1..(m - 1) : fetched(k) /\ consumes(m, k)

\* ------------------------------------------------------------ statistics
NotBackslash(c) == c # "\\"

\* A MarkdownV2 text as the chat shows it.
Unescape(txt) == SelectSeq(txt, NotBackslash)

\* The number a text of the form <digits>.<places digits><suffix> writes, in
\* units of the last place; -1 if the text has another form.
Decimal(text, places, suffix) ==
    LET parts == Split(text, ".")
    IN  IF /\ Len(parts) = 2
           /\ AllDigits(parts[1])
           /\ Len(parts[2]) = places + Len(suffix)
           /\ AllDigits(SubSeq(parts[2], 1, places))
           /\ SubSeq(parts[2], places + 1, Len(parts[2])) = suffix
        THEN DigitsVal(parts[1] \o SubSeq(parts[2], 1, places))
        ELSE 0 - 1

Abs(n) == IF n < 0 THEN 0 - n ELSE n

\* v units of 1/scale is a nearest such number to num / den.
Nearest(v, num, den, scale) ==
    v >= 0 /\ 2 * Abs(num * scale - v * den) <= den

\* The statistics command of invocation p got a score from the ledger.
StatsAnswered(p) ==
    /\ inv[p].cmd = "score"
    /\ Len(trace[p]) = 2
    /\ trace[p][2].kind # "error"

\* C16: the statistics command answers "no scores" exactly when a + i = 0;
\* otherwise its message gives the score, the ratio a / i to two decimals
\* followed by ":1" when i > 0 and the infinity marker when i = 0, and the
\* share of each side in a + i as a percentage to one decimal: for (7, 3),
\* "2.33:1", "70.0%" and "30.0%".
C16_Statistics ==
    \A p \in Invocations :
        StatsAnswered(p) =>
            LET a == score[p][1]
                i == score[p][2]
                reply == trace[p][2]
                lines == Split(Unescape(reply.txt), "\n")
            IN  IF a + i = 0 THEN reply.kind = "no scores"
                ELSE /\ reply.kind = "statistics"
                     /\ Len(lines) = 4
                     /\ lines[1] = IntToStr(a) \o <<" ", "-", " ">> \o IntToStr(i)
                     /\ IF i > 0
                        THEN Nearest(Decimal(lines[2], 2, <<":", "1">>), a, i, 100)
                        ELSE lines[2] = <<"inf">>
                     /\ Nearest(Decimal(lines[3], 1, <<"%">>), a * 100, a + i, 10)
                     /\ Nearest(Decimal(lines[4], 1, <<"%">>), i * 100, a + i, 10)
                     /\ (a = 7 /\ i = 3) =>
                           /\ lines[2] = <<"2", ".", "3", "3", ":", "1">>
                           /\ lines[3] = <<"7", "0", ".", "0", "%">>
                           /\ lines[4] = <<"3", "0", ".", "0", "%">>

\* C16's case: statistics of a ledger whose last line carries 7 and 3.
C16_Witness ==
    \E p \in Invocations :
        /\ StatsAnswered(p)
        /\ score[p] = <<7, 3>>
        /\ pc[p] = "done"

\* -------------------------------------------------------------- start-up
Values ==
    <<"TELEGRAM_TOKEN", "GITHUB_REPO_NAME", "GITHUB_APP_ID", "RAW_PRIVATE_KEY",
      "AUTHORIZED_CHAT_ID", "PLAYER_A_ID", "PLAYER_I_ID">>

\* main has returned or not run yet: no handler, no polling, no command
\* handled.
NothingRuns ==
    /\ app # "polling"
    /\ handlers = {}
    /\ \A p \in Invocations : pc[p] = "idle" /\ trace[p] = <<>>

\* main has built the application and polls.
Polls == app = "polling" /\ handlers = {"setscore", "myscore", "score"}

\* One of the eight values is not set, or the installation id is no integer.
AbsentOrNoInteger ==
    \/ \E k \in 1..Len(Values) : env[Values[k]] = Unset
    \/ env.GITHUB_INSTALLATION_ID = <<Unset>>
    \/ ~IntOk(env.GITHUB_INSTALLATION_ID)

\* C17 as stated: with a value absent or the installation id no integer,
\* main returns before it builds the application; with all of them present
\* it registers the three handlers and polls.
C17_StartsIffPresent ==
    /\ AbsentOrNoInteger => NothingRuns
    /\ (~AbsentOrNoInteger /\ app # "not started") => Polls

\* One of the eight values is not set or empty, or the installation id is
\* no integer or is 0.
AbsentOrEmptyOrZero ==
    \/ AbsentOrNoInteger
    \/ \E k \in 1..Len(Values) : env[Values[k]] = ""
    \/ IntVal(env.GITHUB_INSTALLATION_ID) = 0

\* C17: with a value absent or empty, or an installation id that is no
\* integer or is 0, main returns before it builds the application: no
\* handler is registered, polling never starts and no command is handled;
\* otherwise main registers the three handlers and polls.
C17_StartsIffComplete ==
    /\ AbsentOrEmptyOrZero => NothingRuns
    /\ (~AbsentOrEmptyOrZero /\ app # "not started") => Polls

\* C17's case: main has refused to start on an installation id that is no
\* integer, all other values being there.
C17_Witness ==
    /\ app = "refused"
    /\ env.GITHUB_INSTALLATION_ID = <<"a", "b", "c">>
    /\ \A k \in 1..Len(Values) : Truthy(env[Values[k]])

\* ------------------------------------------------------ malformed ledger
\* A blob of at least two lines whose last line is no score line.
Malformed(content) ==
    LET lines == ScoreLines(content)
    IN  Len(lines) >= 2 /\ ~ValidLine(Last(lines))

\* The k-th call of p fetched a malformed ledger for get_latest_score.
FetchedMalformed(p, k) ==
    /\ Len(trace[p]) >= k
    /\ trace[p][k].ev = "get_contents"
    /\ trace[p][k].fn = "get_latest_score"
    /\ trace[p][k].kind = "ok"
    /\ Malformed(trace[p][k].txt)

\* The ledger is still the blob the k-th call of p fetched.
AsFetched(p, k) == ledger = trace[p][k].txt /\ ledgerSha = trace[p][k].sha

\* C18: on a ledger of at least two lines whose last line has not exactly
\* four fields, or no integer as its third or fourth, an increment ends
\* with an error text in its pending message and submits no update, and
\* the statistics command answers with an error message; the ledger stays
\* as it was.
C18_MalformedLedger ==
    \A p \in Invocations :
        /\ (inv[p].cmd = "myscore" /\ FetchedMalformed(p, 2)) =>
              /\ pc[p] = "done"
              /\ Len(trace[p]) = 3
              /\ trace[p][3].ev = "edit" /\ trace[p][3].kind = "error"
              /\ Shown(trace[p]) = <<"error">>
              /\ AsFetched(p, 2)
        /\ (inv[p].cmd = "score" /\ FetchedMalformed(p, 1)) =>
              /\ pc[p] = "done"
              /\ Len(trace[p]) = 2
              /\ trace[p][2].ev = "send" /\ trace[p][2].kind = "error"
              /\ AsFetched(p, 1)

\* C18's case: an increment on a ledger whose last line has five fields.
C18_Witness ==
    \E p \in Invocations :
        /\ inv[p].cmd = "myscore"
        /\ FetchedMalformed(p, 2)
        /\ Len(Split(Last(ScoreLines(ledger)), ",")) = 5
        /\ pc[p] = "done"

\* ------------------------------------------------- lines and acceptances
\* The invocations whose update the repository has accepted.
AcceptedSet == {p \in Invocations : Accepted(p)}

\* A step adds as many score lines as updates are accepted in it: none, or
\* one, which is then the new line of the invocation accepted.
C19_StepCounts ==
    IF ledger' = ledger
    THEN \A p \in Invocations :
             \A k \in (Len(trace[p]) + 1)..Len(trace'[p]) :
                 ~(trace'[p][k].ev = "update_file" /\ trace'[p][k].kind = "ok")
    ELSE /\ Len(ScoreLines(ledger')) = Len(ScoreLines(ledger)) + 1
         /\ \E p \in Invocations \ AcceptedSet :
               /\ AcceptedSet' = AcceptedSet \cup {p}
               /\ inv[p].cmd \in Commits
               /\ Last(ScoreLines(ledger')) = new_csv_line[p]

\* Success is shown only by an invocation whose update was accepted, and
\* none of those shows a failure text.
C19_ShownAsAccepted ==
    \A p \in Invocations :
        trace[p] # <<>> =>
            LET shown == Shown(trace[p])
            IN  \A k \in 1..Len(shown) :
                    /\ shown[k] \in SuccessKinds => Accepted(p)
                    /\ shown[k] \in FailureKinds => ~Accepted(p)

\* C19: the number of score lines is the initial number plus the number of
\* set-score and increment invocations whose update was accepted, each
\* acceptance adding exactly one line; an invocation shows the success
\* confirmation only if its own update was accepted, and one that shows a
\* failure text has appended no line.
C19_LinesCountAccepted == [][C19_StepCounts]_vars /\ []C19_ShownAsAccepted

\* C19's case: one update accepted and confirmed, another one refused.
C19_Witness ==
    \E p, q \in Invocations :
        /\ Accepted(p)
        /\ Shown(trace[p]) = <<"score set">>
        /\ Has(q, "update_file", "Conflict")
        /\ Shown(trace[q]) = <<"failed to increment">>

\* ------------------------------------------------------------- read-only
\* The calls of a statistics command from the authorized chat: none but one
\* fetch and one message, the fetch made by the time it has ended.
StatsCalls(p) ==
    LET t == trace[p]
        fetches == {k \in 1..Len(t) : t[k].ev = "get_contents"}
    IN  /\ \A k \in 1..Len(t) : t[k].ev \in {"get_contents", "send"}
        /\ Cardinality(fetches) <= 1
        /\ pc[p] = "done" => Cardinality(fetches) = 1

\* A step of a statistics command leaves the ledger and its revision alone.
C20_StatsStep ==
    \A p \in Invocations :
        (inv'[p].cmd = "score" /\ pc'[p] # pc[p]) =>
            /\ ledger' = ledger
            /\ ledgerSha' = ledgerSha

\* C20: the statistics command is read-only: handled, it makes exactly one
\* ledger fetch, submits no update, edits and pins no message, and none of
\* its steps changes the ledger's content or revision, also while set-score
\* and increment invocations are under way.
C20_StatsReadOnly ==
    /\ [][C20_StatsStep]_vars
    /\ [](\A p \in Invocations :
              (inv[p].cmd = "score" /\ inv[p].chat = AUTHORIZED_CHAT_ID) => StatsCalls(p))

\* C20's case: a statistics command has answered while another invocation
\* stands between its fetch and its update.
C20_Witness ==
    \E p, q \in Invocations :
        /\ inv[p].cmd = "score"
        /\ pc[p] = "done"
        /\ Has(p, "send", "statistics")
        /\ pc[q] = "update_file"

====
